---- MODULE Spec2Model ----
(***************************************************************************)
(* MotoPick web backend: the PLCnext variable-access client                *)
(* (src/MotoPick/grpc_client.py, class GrpcClient) and the parts of        *)
(* src/MotoPick/main.py that create and call it.                           *)
(*                                                                         *)
(* Python values are records [kind, n, s] whose three fields always have   *)
(* the same TLA+ type: kind is the Python type name, n the number (a float *)
(* is held in units of 10^-7, so that round(x, 6) is computable), s the    *)
(* text of a str.                                                          *)
(*                                                                         *)
(* grpc_client.py reads three module-level names that the file itself      *)
(* never binds: GRPC_AVAILABLE (lines 42, 108), plcnext_pb2_grpc (line     *)
(* 102) and plcnext_pb2 (lines 123, 152, 177, 178, 228).  Reading an       *)
(* unbound global raises NameError.  Whether each name is bound is part of *)
(* the module's namespace, held in the variables of the same names; the    *)
(* file as shipped is the namespace Shipped below, in which none is bound. *)
(***************************************************************************)
EXTENDS Integers, Sequences, FiniteSets, TLC

VARIABLES
    pxc_grpc_installed, \* environment: `import grpc` / `from pxc_grpc...` succeed
    GRPC_AVAILABLE,     \* module namespace: "unbound", "True" or "False"
    plcnext_pb2,        \* module namespace: TRUE iff the name is bound
    plcnext_pb2_grpc,   \* module namespace: TRUE iff the name is bound
    pc,                 \* main.py: "import", "main", "serving", "crashed"
    grpc_client,        \* main.py:98 global: "None" or "GrpcClient"
    ctor,               \* outcome of GrpcClient(address): "not_called", "returned", "raised"
    address,            \* self.address
    channel,            \* self.channel: "None", "secure", "insecure"
    stub,               \* self.stub: "None", "stub"
    _connected,         \* self._connected
    _sim_data,          \* self._sim_data: the simulation store
    written,            \* history: names whose store value was last set by write_single
    last,               \* the most recent call: [op, args, ret, raised, sent]
    snapshot,           \* a caller's variable bound to what get_sim_data returned
    current_project,    \* main.py:127 global, as far as the handlers here read it
    project_lock,       \* main.py:128: "free" or the thread that holds it
    thread,             \* where each request thread is in its handler
    project_file,       \* PROJECT_FILE on disk: whether it was written, and with what
    save_failed,        \* history: some save_project_to_disk has failed
    signals,            \* main thread: the graceful_shutdown frames, innermost last
    event_log,          \* main.py:101: deque(maxlen=500), oldest event first
    now                 \* the clock datetime.now() reads: events stamped so far

vars == <<pxc_grpc_installed, GRPC_AVAILABLE, plcnext_pb2, plcnext_pb2_grpc, pc,
          grpc_client, ctor, address, channel, stub, _connected, _sim_data,
          written, last, snapshot, current_project, project_lock, thread,
          project_file, save_failed, signals, event_log, now>>

namespace == <<pxc_grpc_installed, GRPC_AVAILABLE, plcnext_pb2, plcnext_pb2_grpc>>
fields == <<address, channel, stub, _connected>>
disk == <<project_file, save_failed>>
events == <<event_log, now>>
requests == <<current_project, project_lock, thread, disk, signals, events>>
callers == <<snapshot, current_project, project_lock, thread, disk, signals, events>>

(***************************************************************************)
(* Bounds of the model.                                                    *)
(***************************************************************************)
MaxItems == 2   \* longest dataItems list the remote end answers with
MaxNames == 2   \* longest port_names list passed to read_multiple
MaxSignals == 2 \* most signals delivered to the process
MaxEvents == 5  \* most events logged in a run

(***************************************************************************)
(* Python values.                                                          *)
(***************************************************************************)
None == [kind |-> "NoneType", n |-> 0, s |-> ""]
PyBool(b) == [kind |-> "bool", n |-> IF b THEN 1 ELSE 0, s |-> ""]
PyInt(i) == [kind |-> "int", n |-> i, s |-> ""]
PyFloat(u) == [kind |-> "float", n |-> u, s |-> ""]
PyStr(t) == [kind |-> "str", n |-> 0, s |-> t]

FloatUnit == 10 ^ 7    \* PyFloat(u) is the float u / FloatUnit

(***************************************************************************)
(* dict operations used by the client.                                     *)
(***************************************************************************)
DictUpdate(d, e) ==
    [k \in DOMAIN d \cup DOMAIN e |-> IF k \in DOMAIN e THEN e[k] ELSE d[k]]

DictSet(d, k, v) == IF k \in DOMAIN d THEN [d EXCEPT ![k] = v] ELSE (k :> v) @@ d

DictGet(d, k, default) == IF k \in DOMAIN d THEN d[k] ELSE default

(***************************************************************************)
(* GrpcClient._init_sim_data (grpc_client.py:51-92).                       *)
(***************************************************************************)
NumRobots == 8
NumConveyors == 16

Fmt02d(i) == IF i < 10 THEN "0" \o ToString(i) ELSE ToString(i)

Root == "Arp.Plc.Eclr/MotoPick."

SystemData ==
    (Root \o "System.Running" :> PyBool(FALSE)) @@
    (Root \o "System.Connected" :> PyBool(FALSE)) @@
    (Root \o "System.Error" :> PyBool(FALSE)) @@
    (Root \o "System.ErrorCode" :> PyInt(0)) @@
    (Root \o "System.PicksPerMinute" :> PyFloat(0)) @@
    (Root \o "System.TotalPicks" :> PyInt(0)) @@
    (Root \o "System.MissedItems" :> PyInt(0))

\* the robot variables with every robot enabled
RobotDataAllEnabled(i) ==
    LET prefix == Root \o "Robot" \o Fmt02d(i)
    IN  (prefix \o ".Enabled" :> PyBool(TRUE)) @@
        (prefix \o ".Running" :> PyBool(FALSE)) @@
        (prefix \o ".Error" :> PyBool(FALSE)) @@
        (prefix \o ".ErrorCode" :> PyInt(0)) @@
        (prefix \o ".PicksPerMinute" :> PyFloat(0)) @@
        (prefix \o ".TotalPicks" :> PyInt(0)) @@
        (prefix \o ".Efficiency" :> PyFloat(0)) @@
        (prefix \o ".X" :> PyFloat(0)) @@
        (prefix \o ".Y" :> PyFloat(0)) @@
        (prefix \o ".Z" :> PyFloat(0))

RobotData(i) ==
    LET prefix == Root \o "Robot" \o Fmt02d(i)
    IN  (prefix \o ".Enabled" :> PyBool(i <= 2)) @@
        (prefix \o ".Running" :> PyBool(FALSE)) @@
        (prefix \o ".Error" :> PyBool(FALSE)) @@
        (prefix \o ".ErrorCode" :> PyInt(0)) @@
        (prefix \o ".PicksPerMinute" :> PyFloat(0)) @@
        (prefix \o ".TotalPicks" :> PyInt(0)) @@
        (prefix \o ".Efficiency" :> PyFloat(0)) @@
        (prefix \o ".X" :> PyFloat(0)) @@
        (prefix \o ".Y" :> PyFloat(0)) @@
        (prefix \o ".Z" :> PyFloat(0))

ConveyorData(i) ==
    LET prefix == Root \o "Conveyor" \o Fmt02d(i)
    IN  (prefix \o ".Enabled" :> PyBool(i <= 2)) @@
        (prefix \o ".Running" :> PyBool(FALSE)) @@
        (prefix \o ".Speed" :> PyFloat(0)) @@
        (prefix \o ".ActualSpeed" :> PyFloat(0)) @@
        (prefix \o ".ItemsDetected" :> PyInt(0)) @@
        (prefix \o ".ItemsLeft" :> PyInt(0))

RECURSIVE UpdateEach(_, _, _, _)
\* for i in range(lo, hi + 1): data.update(Unit(i))
UpdateEach(data, Unit(_), lo, hi) ==
    IF lo > hi THEN data
    ELSE UpdateEach(DictUpdate(data, Unit(lo)), Unit, lo + 1, hi)

_init_sim_data ==
    UpdateEach(UpdateEach(SystemData, RobotData, 1, NumRobots),
               ConveyorData, 1, NumConveyors)

(***************************************************************************)
(* Inputs the operations are called with.                                  *)
(***************************************************************************)
TotalPicks == Root \o "System.TotalPicks"

Names == {"X.Y", TotalPicks}

\* one value of each scalar kind: None, True, 42, 1.5, "abc"
Values == {None, PyBool(TRUE), PyInt(42), PyFloat(15000000), PyStr("abc")}

\* the value update_sim is called with (a test's preset), none of Values
Presets == {PyInt(7)}

\* "TIME" is a declared type the client has no case for
DataTypes == {"AUTO", "DINT", "dint", "TIME"}

\* addresses, as sequences of characters: "unix://s" and "d:1"
UnixSock == <<"u", "n", "i", "x", ":", "/", "/", "s">>
DeadAddr == <<"d", ":", "1">>
Addresses == {UnixSock, DeadAddr}

\* addresses at which nothing answers: every request on the channel raises
Unreachable == {DeadAddr}

\* str.startswith
startswith(t, prefix) ==
    /\ Len(t) >= Len(prefix)
    /\ \A i \in 1..Len(prefix) : t[i] = prefix[i]

UnixPrefix == <<"u", "n", "i", "x", ":", "/", "/">>

\* str.upper, on the declared types of the model
upper(t) ==
    CASE t = "dint" -> "DINT"
      [] OTHER -> t

(***************************************************************************)
(* Python conversions bool(), int(), float(), str() on the model's values. *)
(* Each gives [raised, v]; raised stands for TypeError or ValueError.      *)
(***************************************************************************)
Ok(v) == [raised |-> FALSE, v |-> v]
Raise == [raised |-> TRUE, v |-> None]

Abs(i) == IF i < 0 THEN -i ELSE i
Sign(i) == IF i < 0 THEN -1 ELSE 1

\* int(str): the decimal literals among the model's strings
IntLiteral(t) ==
    CASE t = "12" -> Ok(PyInt(12))
      [] OTHER -> Raise

bool(value) ==
    CASE value.kind = "NoneType" -> Ok(PyBool(FALSE))
      [] value.kind = "str" -> Ok(PyBool(value.s # ""))
      [] OTHER -> Ok(PyBool(value.n # 0))

int(value) ==
    CASE value.kind = "NoneType" -> Raise
      [] value.kind = "str" -> IntLiteral(value.s)
      [] value.kind = "float" ->
            Ok(PyInt(Sign(value.n) * (Abs(value.n) \div FloatUnit)))
      [] OTHER -> Ok(PyInt(value.n))

float(value) ==
    CASE value.kind = "NoneType" -> Raise
      [] value.kind = "str" ->
            IF IntLiteral(value.s).raised THEN Raise
            ELSE Ok(PyFloat(IntLiteral(value.s).v.n * FloatUnit))
      [] value.kind = "float" -> Ok(value)
      [] OTHER -> Ok(PyFloat(value.n * FloatUnit))

\* repr of a float with magnitude 0 or at least 10^-4 (fixed notation)
FloatText(u) ==
    (IF u < 0 THEN "-" ELSE "") \o ToString(Abs(u) \div FloatUnit) \o "." \o
    (IF Abs(u) % FloatUnit = 0 THEN "0"
     ELSE LET RECURSIVE Frac(_, _)
              \* f has k digits left to print; leading zeros kept
              Frac(f, k) ==
                  IF f = 0 THEN ""
                  ELSE LET p == 10 ^ (k - 1)
                       IN  ToString(f \div p) \o Frac(f % p, k - 1)
          IN  Frac(Abs(u) % FloatUnit, 7))

str(value) ==
    CASE value.kind = "NoneType" -> Ok(PyStr("None"))
      [] value.kind = "bool" -> Ok(PyStr(IF value.n = 1 THEN "True" ELSE "False"))
      [] value.kind = "int" -> Ok(PyStr(ToString(value.n)))
      [] value.kind = "float" -> Ok(PyStr(FloatText(value.n)))
      [] OTHER -> Ok(value)

(***************************************************************************)
(* The wire value (TypedValue): a tagged union [tag, n, s].  tag is the    *)
(* name WhichOneof('value') returns, "unset" when no member is set (it     *)
(* returns None), "futureValue" a member this client does not know, and    *)
(* "malformed" an item whose value cannot be read (the access raises).     *)
(***************************************************************************)
Typed(tag, n, s) == [tag |-> tag, n |-> n, s |-> s]

IntTags == {"int8Value", "int16Value", "int32Value", "int64Value",
            "uint8Value", "uint16Value", "uint32Value", "uint64Value"}

\* round(x, 6) of a float held in units of 10^-7: nearest, ties to even
Round6(u) ==
    LET q == Abs(u) \div 10
        r == Abs(u) % 10
        m == IF r > 5 \/ (r = 5 /\ q % 2 = 1) THEN q + 1 ELSE q
    IN  Sign(u) * m * 10

\* _extract_value that keeps 16 bits of an integer and reads a tag it does not
\* know as the number the item carries
_extract_value_narrow(item) ==
    LET val == item.value
        which == val.tag
    IN  CASE which = "malformed" -> None
          [] which = "boolValue" -> PyBool(val.n = 1)
          [] which \in IntTags -> PyInt(val.n % (2 ^ 16))
          [] which \in {"floatValue", "doubleValue"} -> PyFloat(Round6(val.n))
          [] which = "stringValue" -> PyStr(val.s)
          [] which = "unset" -> None
          [] OTHER -> PyInt(val.n)

\* GrpcClient._extract_value (grpc_client.py:190-223)
_extract_value(item) ==
    LET val == item.value
        which == val.tag
    IN  CASE which = "malformed" -> None
          [] which = "boolValue" -> PyBool(val.n = 1)
          [] which \in IntTags -> PyInt(val.n)
          [] which = "floatValue" -> PyFloat(Round6(val.n))
          [] which = "doubleValue" -> PyFloat(Round6(val.n))
          [] which = "stringValue" -> PyStr(val.s)
          [] OTHER -> None

\* assigning i to an unsigned member of the message raises ValueError when i < 0
SetUnsigned(tag, c) ==
    IF c.raised \/ c.v.n < 0 THEN Raise ELSE Ok(Typed(tag, c.v.n, ""))

SetSigned(tag, c) == IF c.raised THEN Raise ELSE Ok(Typed(tag, c.v.n, ""))

SetFloat(tag, c) == IF c.raised THEN Raise ELSE Ok(Typed(tag, c.v.n, ""))

\* _create_typed_value without the `raise` of line 261: a coercion that fails
\* is logged and an empty string value is returned
_create_typed_value_swallow(value, data_type) ==
    IF ~plcnext_pb2 \/ (upper(data_type) \in {"DINT", "INT32"} /\ int(value).raised)
    THEN Ok(Typed("stringValue", 0, ""))
    ELSE IF upper(data_type) \in {"DINT", "INT32"}
         THEN SetSigned("int32Value", int(value))
    ELSE CASE value.kind = "bool" -> Ok(Typed("boolValue", value.n, ""))
           [] value.kind = "int" -> Ok(Typed("int32Value", value.n, ""))
           [] value.kind = "float" -> Ok(Typed("doubleValue", value.n, ""))
           [] OTHER -> Ok(Typed("stringValue", 0, str(value).v.s))

\* _create_typed_value whose auto-detection asks isinstance(value, int) first,
\* which a bool satisfies
_create_typed_value_int_first(value, data_type) ==
    IF ~plcnext_pb2 THEN Raise
    ELSE IF upper(data_type) \in {"DINT", "INT32"}
         THEN SetSigned("int32Value", int(value))
    ELSE CASE value.kind \in {"bool", "int"} -> Ok(Typed("int32Value", value.n, ""))
           [] value.kind = "float" -> Ok(Typed("doubleValue", value.n, ""))
           [] OTHER -> Ok(Typed("stringValue", 0, str(value).v.s))

\* GrpcClient._create_typed_value (grpc_client.py:225-261): [raised, v];
\* raised is the exception the except clause logs and re-raises
_create_typed_value(value, data_type) ==
    IF ~plcnext_pb2 THEN Raise     \* line 228: NameError
    ELSE LET dt == upper(data_type)
         IN  CASE dt = "BOOL" -> Ok(Typed("boolValue", bool(value).v.n, ""))
               [] dt \in {"INT", "INT16"} -> SetSigned("int16Value", int(value))
               [] dt \in {"DINT", "INT32"} -> SetSigned("int32Value", int(value))
               [] dt \in {"UINT", "UINT16"} -> SetUnsigned("uint16Value", int(value))
               [] dt \in {"UDINT", "UINT32"} -> SetUnsigned("uint32Value", int(value))
               [] dt \in {"LREAL", "DOUBLE", "FLOAT64"} ->
                     SetFloat("doubleValue", float(value))
               [] dt \in {"REAL", "FLOAT"} -> SetFloat("floatValue", float(value))
               [] dt \in {"STRING", "WSTRING"} ->
                     Ok(Typed("stringValue", 0, str(value).v.s))
               [] OTHER ->
                     CASE value.kind = "bool" -> Ok(Typed("boolValue", value.n, ""))
                       [] value.kind = "int" -> Ok(Typed("int32Value", value.n, ""))
                       [] value.kind = "float" -> Ok(Typed("doubleValue", value.n, ""))
                       [] OTHER -> Ok(Typed("stringValue", 0, str(value).v.s))

\* is_connected (grpc_client.py:106-108): `self._connected and GRPC_AVAILABLE`;
\* the second operand is read, and raises NameError when unbound, only if
\* the first is true
is_connected_raises == _connected /\ GRPC_AVAILABLE = "unbound"

is_connected == _connected /\ GRPC_AVAILABLE = "True"

(***************************************************************************)
(* The remote end.  A request on the stub either raises (a transport       *)
(* exception whose text is e.text) or is answered; Read is answered with   *)
(* a list of DataItem [portName, value].                                   *)
(***************************************************************************)
DataItem(portName, value) == [portName |-> portName, value |-> value]

WireValues == {Typed("boolValue", 1, ""), Typed("int32Value", 42, ""),
               Typed("int8Value", -5, ""), Typed("uint64Value", 2000000000, ""),
               Typed("doubleValue", 15000004, ""), Typed("stringValue", 0, "abc"),
               Typed("unset", 0, ""), Typed("futureValue", 9, ""),
               Typed("malformed", 0, "")}

\* the items of one-item answers: every wire value
Items == {DataItem("X.Y", v) : v \in WireValues}

\* the items of the longer answers
BatchItems == {DataItem("X.Y", Typed("int32Value", 42, "")),
               DataItem(TotalPicks, Typed("unset", 0, ""))}

SeqsUpTo(S, k) == UNION {[1..m -> S] : m \in 0..k}

Replies == SeqsUpTo(Items, 1) \cup SeqsUpTo(BatchItems, MaxItems)

RpcError == [exc |-> TRUE, text |-> "StatusCode.UNAVAILABLE", dataItems |-> <<>>]
Reply(items) == [exc |-> FALSE, text |-> "", dataItems |-> items]
NameError(name) ==
    [exc |-> TRUE, text |-> "name '" \o name \o "' is not defined", dataItems |-> <<>>]

\* what self.stub.Read can do; a call that never reaches the stub sees none of it
ReadResponses(a) ==
    IF ~(is_connected /\ plcnext_pb2) THEN {RpcError}
    ELSE IF a \in Unreachable THEN {RpcError}
    ELSE {RpcError} \cup {Reply(items) : items \in Replies}

\* what self.stub.Write can do
WriteResponses(a) ==
    IF ~(is_connected /\ plcnext_pb2) THEN {RpcError}
    ELSE IF a \in Unreachable THEN {RpcError}
    ELSE {RpcError, Reply(<<>>)}

(***************************************************************************)
(* GrpcClient: the property and the result records of the methods.         *)
(***************************************************************************)
\* the outcome of a method call: the value returned (or raised = TRUE), the
\* number of requests sent on the stub, and the store afterwards
Outcome(ret, raised, sent, store) ==
    [ret |-> ret, raised |-> raised, sent |-> sent, store |-> store]

\* grpc_client.py:114-120 and 142-147
SimRecord(port_name) ==
    [port_name |-> port_name, value |-> DictGet(_sim_data, port_name, None),
     success |-> TRUE, simulated |-> TRUE]

\* LiveRecord with the wire number taken as it is, not through _extract_value
LiveRecordRaw(port_name, item) ==
    [port_name |-> port_name,
     value |-> IF item.value.tag \in {"floatValue", "doubleValue"}
               THEN PyFloat(item.value.n) ELSE _extract_value(item),
     success |-> TRUE, simulated |-> FALSE]

\* grpc_client.py:127-132 and 156-161
LiveRecord(port_name, item) ==
    [port_name |-> port_name, value |-> _extract_value(item),
     success |-> TRUE, simulated |-> FALSE]

\* grpc_client.py:133
EmptyRecord(port_name) ==
    [port_name |-> port_name, value |-> None, success |-> FALSE]

\* grpc_client.py:136 and 165
ErrorRecord(port_name, e) ==
    [port_name |-> port_name, value |-> None, success |-> FALSE, error |-> e.text]

\* read_single with `self._sim_data.setdefault(port_name, None)` for the lookup
ReadSingleSetdefault(port_name, resp) ==
    IF ~is_connected
    THEN Outcome(SimRecord(port_name), FALSE, 0,
                 IF port_name \in DOMAIN _sim_data THEN _sim_data
                 ELSE DictSet(_sim_data, port_name, None))
    ELSE IF resp.exc THEN Outcome(ErrorRecord(port_name, resp), FALSE, 1, _sim_data)
    ELSE IF resp.dataItems # <<>>
         THEN Outcome(LiveRecord(port_name, resp.dataItems[1]), FALSE, 1, _sim_data)
    ELSE Outcome(EmptyRecord(port_name), FALSE, 1, _sim_data)

\* read_single that sends the request a second time when the first ends in a
\* transport exception (and is answered the same)
ReadSingleRetry(port_name, resp) ==
    IF ~is_connected THEN Outcome(SimRecord(port_name), FALSE, 0, _sim_data)
    ELSE IF resp.exc THEN Outcome(ErrorRecord(port_name, resp), FALSE, 2, _sim_data)
    ELSE IF resp.dataItems # <<>>
         THEN Outcome(LiveRecord(port_name, resp.dataItems[1]), FALSE, 1, _sim_data)
    ELSE Outcome(EmptyRecord(port_name), FALSE, 1, _sim_data)

\* GrpcClient.read_single (grpc_client.py:110-136); resp is what
\* self.stub.Read does when it is reached
ReadSingle(port_name, resp) ==
    IF is_connected_raises THEN Outcome(None, TRUE, 0, _sim_data)
    ELSE IF ~is_connected THEN Outcome(SimRecord(port_name), FALSE, 0, _sim_data)
    ELSE IF ~plcnext_pb2
         THEN Outcome(ErrorRecord(port_name, NameError("plcnext_pb2")), FALSE, 0, _sim_data)
    ELSE IF resp.exc THEN Outcome(ErrorRecord(port_name, resp), FALSE, 1, _sim_data)
    ELSE IF resp.dataItems # <<>>
         THEN Outcome(LiveRecord(port_name, resp.dataItems[1]), FALSE, 1, _sim_data)
    ELSE Outcome(EmptyRecord(port_name), FALSE, 1, _sim_data)

\* read_multiple whose Simulated branch reports a name the store does not hold
\* as failed
ReadMultipleStrict(port_names, resp) ==
    IF ~is_connected
    THEN Outcome([i \in 1..Len(port_names) |->
                     [SimRecord(port_names[i]) EXCEPT
                         !.success = port_names[i] \in DOMAIN _sim_data]],
                 FALSE, 0, _sim_data)
    ELSE IF resp.exc
         THEN Outcome([i \in 1..Len(port_names) |-> ErrorRecord(port_names[i], resp)],
                      FALSE, 1, _sim_data)
    ELSE Outcome([i \in 1..Len(resp.dataItems) |->
                     LiveRecord(resp.dataItems[i].portName, resp.dataItems[i])],
                 FALSE, 1, _sim_data)

\* read_multiple that answers a transport exception with one record for the
\* whole batch
ReadMultipleOneError(port_names, resp) ==
    IF ~is_connected
    THEN Outcome([i \in 1..Len(port_names) |-> SimRecord(port_names[i])],
                 FALSE, 0, _sim_data)
    ELSE IF resp.exc
         THEN Outcome(<<ErrorRecord("", resp)>>, FALSE, 1, _sim_data)
    ELSE Outcome([i \in 1..Len(resp.dataItems) |->
                     LiveRecord(resp.dataItems[i].portName, resp.dataItems[i])],
                 FALSE, 1, _sim_data)

\* read_multiple that answers per requested name: the i-th record is named by
\* the i-th request, and a name the remote end left out is reported as failed
ReadMultiplePerName(port_names, resp) ==
    IF ~is_connected
    THEN Outcome([i \in 1..Len(port_names) |-> SimRecord(port_names[i])],
                 FALSE, 0, _sim_data)
    ELSE IF resp.exc
         THEN Outcome([i \in 1..Len(port_names) |-> ErrorRecord(port_names[i], resp)],
                      FALSE, 1, _sim_data)
    ELSE Outcome([i \in 1..Len(port_names) |->
                     IF i <= Len(resp.dataItems)
                     THEN LiveRecord(port_names[i], resp.dataItems[i])
                     ELSE EmptyRecord(port_names[i])],
                 FALSE, 1, _sim_data)

\* GrpcClient.read_multiple (grpc_client.py:138-165)
ReadMultiple(port_names, resp) ==
    IF is_connected_raises THEN Outcome(None, TRUE, 0, _sim_data)
    ELSE IF ~is_connected
         THEN Outcome([i \in 1..Len(port_names) |-> SimRecord(port_names[i])],
                      FALSE, 0, _sim_data)
    ELSE IF ~plcnext_pb2
         THEN Outcome([i \in 1..Len(port_names) |->
                          ErrorRecord(port_names[i], NameError("plcnext_pb2"))],
                      FALSE, 0, _sim_data)
    ELSE IF resp.exc
         THEN Outcome([i \in 1..Len(port_names) |-> ErrorRecord(port_names[i], resp)],
                      FALSE, 1, _sim_data)
    ELSE Outcome([i \in 1..Len(resp.dataItems) |->
                     LiveRecord(resp.dataItems[i].portName, resp.dataItems[i])],
                 FALSE, 1, _sim_data)

\* the store keeping the text of the value instead of the value
SimStoreStr(port_name, value) == DictSet(_sim_data, port_name, str(value).v)

\* grpc_client.py:171
SimStore(port_name, value) == DictSet(_sim_data, port_name, value)

\* write_single without the Simulated branch of lines 169-173: every write
\* goes to the stub, which a Simulated client does not have
WriteSingleNoFallback(port_name, value, data_type, resp) ==
    IF _create_typed_value(value, data_type).raised
    THEN Outcome(FALSE, FALSE, 0, _sim_data)
    ELSE IF ~is_connected \/ resp.exc THEN Outcome(FALSE, FALSE, 1, _sim_data)
    ELSE Outcome(TRUE, FALSE, 1, _sim_data)

\* write_single whose Simulated branch coerces the value to the declared type
\* first, and fails like a Live write when that raises
WriteSingleSimTyped(port_name, value, data_type, resp) ==
    IF ~is_connected
    THEN IF upper(data_type) \in {"DINT", "INT32"} /\ int(value).raised
         THEN Outcome(FALSE, FALSE, 0, _sim_data)
         ELSE Outcome(TRUE, FALSE, 0, SimStore(port_name, value))
    ELSE IF _create_typed_value(value, data_type).raised
         THEN Outcome(FALSE, FALSE, 0, _sim_data)
    ELSE IF resp.exc THEN Outcome(FALSE, FALSE, 1, _sim_data)
    ELSE Outcome(TRUE, FALSE, 1, _sim_data)

\* write_single that keeps the simulation store in step with what a Live
\* write sent
WriteSingleMirror(port_name, value, data_type, resp) ==
    IF ~is_connected THEN Outcome(TRUE, FALSE, 0, SimStore(port_name, value))
    ELSE IF _create_typed_value(value, data_type).raised
         THEN Outcome(FALSE, FALSE, 0, _sim_data)
    ELSE IF resp.exc THEN Outcome(FALSE, FALSE, 1, _sim_data)
    ELSE Outcome(TRUE, FALSE, 1, SimStore(port_name, value))

\* GrpcClient.write_single (grpc_client.py:167-183); resp is what
\* self.stub.Write does when it is reached
WriteSingle(port_name, value, data_type, resp) ==
    IF is_connected_raises THEN Outcome(FALSE, TRUE, 0, _sim_data)
    ELSE IF ~is_connected THEN Outcome(TRUE, FALSE, 0, SimStore(port_name, value))
    ELSE IF _create_typed_value(value, data_type).raised
         THEN Outcome(FALSE, FALSE, 0, _sim_data)
    ELSE IF resp.exc THEN Outcome(FALSE, FALSE, 1, _sim_data)
    ELSE Outcome(TRUE, FALSE, 1, _sim_data)

(***************************************************************************)
(* The record of the most recent call.                                     *)
(***************************************************************************)
\* op and its arguments, whether the client was Live when called, what was
\* returned or raised, how many requests went out on the stub and what the
\* remote end did with the request (NoRpc when none was sent)
NoRpc == [exc |-> FALSE, text |-> "no request", dataItems |-> <<>>]

\* wire is the TypedValue of the Write request that went out, NoWire when
\* the call sent none
NoWire == Typed("none", 0, "")

Call(op, port_name, value, data_type, port_names, out, resp, live) ==
    [op |-> op, port_name |-> port_name, value |-> value, data_type |-> data_type,
     port_names |-> port_names, ret |-> out.ret, raised |-> out.raised,
     sent |-> out.sent, resp |-> IF out.sent = 0 THEN NoRpc ELSE resp, live |-> live,
     wire |-> NoWire]

\* grpc_client.py:176-179: the value the Write request carries
WriteCall(op, port_name, value, data_type, out, resp, live) ==
    [Call(op, port_name, value, data_type, <<>>, out, resp, live) EXCEPT
        !.wire = IF out.sent = 1 THEN _create_typed_value(value, data_type).v
                 ELSE NoWire]

Local(ret) == Outcome(ret, FALSE, 0, <<>>)

NoCall == Call("none", "", None, "", <<>>, Local(None), NoRpc, FALSE)

\* A reference to a dict object: ref says which object ("new dict" one made by
\* the call that returned it, "self._sim_data" the client's own store) and
\* data holds the entries of an object that is not the store.
NoDict == [ref |-> "None", data |-> <<>>]

\* get_sim_data returning the store itself
GetSimDataAlias == [ref |-> "self._sim_data", data |-> <<>>]

\* grpc_client.py:269: dict(self._sim_data)
GetSimData == [ref |-> "new dict", data |-> _sim_data]

\* the entries of the object a reference points at
Entries(d) == IF d.ref = "self._sim_data" THEN _sim_data ELSE d.data

\* main.py:101: deque(maxlen=500)
maxlen == 500

\* add_event (main.py:433-439): deque.append drops the oldest event of a full
\* deque; t is what datetime.now() gives
add_event(log, t, message, level) ==
    LET appended == Append(log, [timestamp |-> t, level |-> level, message |-> message])
    IN  IF Len(appended) > maxlen THEN Tail(appended) ELSE appended

\* main (main.py:955-959): the events logged around init_grpc_client(), whose
\* result is `initialised`
main_events(initialised) ==
    LET started == add_event(event_log, now + 1, "System started", "INFO")
    IN  IF initialised
        THEN /\ event_log' = started
             /\ now' = now + 1
        ELSE /\ event_log' = add_event(started, now + 2,
                                       "Running in simulation mode (no gRPC)", "WARNING")
             /\ now' = now + 2

\* the request threads of the server
Threads == {"t1", "t2"}

\* a thread that is in no handler; at is the line of main.py the thread is
\* at, the other fields are the handler's local variables
Idle == [at |-> "idle", port_name |-> "", value |-> None, data_type |-> "",
         robot_count |-> 0, data |-> 0]

\* main.py:154-167: started without a project file, the demo project is in
\* memory and nothing is on disk
NoFile == [written |-> FALSE, partial |-> FALSE, content |-> [robots |-> 0]]

\* main.py:185-200: the demo project has two robots
DemoRobots == 2

\* the file as shipped binds none of the three names
Shipped == GRPC_AVAILABLE = "unbound" /\ ~plcnext_pb2 /\ ~plcnext_pb2_grpc

Init ==
    /\ pxc_grpc_installed \in BOOLEAN
    /\ GRPC_AVAILABLE \in {"unbound", "True", "False"}
    /\ plcnext_pb2 \in BOOLEAN
    /\ plcnext_pb2_grpc = plcnext_pb2    \* the two generated modules come together
    /\ pc = "import"
    /\ grpc_client = "None"
    /\ ctor = "not_called"
    /\ address = <<>>
    /\ channel = "None"
    /\ stub = "None"
    /\ _connected = FALSE
    /\ _sim_data = <<>>
    /\ written = <<>>
    /\ last = NoCall
    /\ snapshot = NoDict
    /\ current_project = [robots |-> DemoRobots]
    /\ project_lock = "free"
    /\ thread = [t \in Threads |-> Idle]
    /\ project_file = NoFile
    /\ save_failed = FALSE
    /\ signals = <<>>
    /\ event_log = <<>>
    /\ now = 0

(***************************************************************************)
(* main.py:60 `from grpc_client import GrpcClient`, which runs             *)
(* grpc_client.py:7-24.  `import grpc` and the two `from pxc_grpc...`      *)
(* imports are not guarded: without the library the ImportError ends       *)
(* main.py before any client exists.                                       *)
(***************************************************************************)
import_grpc_client ==
    /\ pc = "import"
    /\ pc' = IF pxc_grpc_installed THEN "main" ELSE "crashed"
    /\ last' = Call("import", "", None, "", <<>>,
                    Outcome(None, ~pxc_grpc_installed, 0, <<>>), NoRpc, FALSE)
    /\ UNCHANGED <<namespace, callers, grpc_client, ctor, fields, _sim_data, written>>

(***************************************************************************)
(* GrpcClient.__init__ (grpc_client.py:35-49) with _connect (94-104).      *)
(* channel_raises and stub_raises say whether the channel constructor and  *)
(* the stub constructor raise.  The result is the object's fields and      *)
(* whether the constructor raised.                                         *)
(***************************************************************************)
_connect(addr, channel_raises, stub_raises) ==
    LET kind == IF startswith(addr, UnixPrefix) THEN "secure" ELSE "insecure"
    IN  IF channel_raises
        THEN [raised |-> TRUE, channel |-> "None", stub |-> "None", _connected |-> FALSE]
        ELSE IF ~plcnext_pb2_grpc \/ stub_raises     \* line 102
        THEN [raised |-> TRUE, channel |-> kind, stub |-> "None", _connected |-> FALSE]
        ELSE [raised |-> FALSE, channel |-> kind, stub |-> "stub", _connected |-> TRUE]

__init__(addr, channel_raises, stub_raises) ==
    LET c == _connect(addr, channel_raises, stub_raises)
    IN  CASE GRPC_AVAILABLE = "unbound" ->      \* line 42: NameError, outside the try
                [raised |-> TRUE, channel |-> "None", stub |-> "None",
                 _connected |-> FALSE]
          [] GRPC_AVAILABLE = "True" ->         \* lines 43-47
                [raised |-> FALSE, channel |-> c.channel, stub |-> c.stub,
                 _connected |-> IF c.raised THEN FALSE ELSE c._connected]
          [] OTHER ->                           \* line 49
                [raised |-> FALSE, channel |-> "None", stub |-> "None",
                 _connected |-> FALSE]

\* init_grpc_client (main.py:422-431), called once from main.py:957
init_grpc_client(addr, channel_raises, stub_raises) ==
    LET obj == __init__(addr, channel_raises, stub_raises)
    IN  /\ pc = "main"
        /\ pc' = "serving"
        /\ ctor' = IF obj.raised THEN "raised" ELSE "returned"
        /\ IF obj.raised
           THEN UNCHANGED <<grpc_client, fields, _sim_data>>
           ELSE /\ grpc_client' = "GrpcClient"
                /\ address' = addr
                /\ channel' = obj.channel
                /\ stub' = obj.stub
                /\ _connected' = obj._connected
                /\ _sim_data' = _init_sim_data
        /\ last' = Call("init_grpc_client", "", None, "", <<>>,
                        Local(~obj.raised), NoRpc, FALSE)
        /\ main_events(~obj.raised)
        /\ UNCHANGED <<namespace, snapshot, current_project, project_lock, thread,
                       disk, signals, written>>

(***************************************************************************)
(* Calls of the client's methods on the object main.py holds.              *)
(***************************************************************************)
HasClient == pc = "serving" /\ grpc_client = "GrpcClient"

Without(d, k) == [x \in DOMAIN d \ {k} |-> d[x]]

\* read_single that gives the connection up after a transport exception
read_single_downgrading(port_name) ==
    /\ HasClient
    /\ \E resp \in ReadResponses(address) :
          LET out == ReadSingle(port_name, resp)
          IN  /\ _sim_data' = out.store
              /\ last' = Call("read_single", port_name, None, "", <<>>,
                              out, resp, is_connected)
              /\ _connected' = IF out.sent = 1 /\ resp.exc THEN FALSE ELSE _connected
    /\ UNCHANGED <<namespace, callers, pc, grpc_client, ctor, address, channel, stub, written>>

read_single(port_name) ==
    /\ HasClient
    /\ \E resp \in ReadResponses(address) :
          LET out == ReadSingle(port_name, resp)
          IN  /\ _sim_data' = out.store
              /\ last' = Call("read_single", port_name, None, "", <<>>,
                              out, resp, is_connected)
    /\ UNCHANGED <<namespace, callers, pc, grpc_client, ctor, fields, written>>

read_multiple(port_names) ==
    /\ HasClient
    /\ \E resp \in ReadResponses(address) :
          LET out == ReadMultiple(port_names, resp)
          IN  /\ _sim_data' = out.store
              /\ last' = Call("read_multiple", "", None, "", port_names,
                              out, resp, is_connected)
    /\ UNCHANGED <<namespace, callers, pc, grpc_client, ctor, fields, written>>

write_single(port_name, value, data_type) ==
    /\ HasClient
    /\ \E resp \in WriteResponses(address) :
          LET out == WriteSingle(port_name, value, data_type, resp)
          IN  /\ _sim_data' = out.store
              /\ last' = WriteCall("write_single", port_name, value, data_type,
                                   out, resp, is_connected)
    /\ written' = IF is_connected \/ is_connected_raises THEN written
                  ELSE DictSet(written, port_name, value)
    /\ UNCHANGED <<namespace, callers, pc, grpc_client, ctor, fields>>

\* GrpcClient.update_sim (grpc_client.py:263-265)
update_sim(port_name, value) ==
    /\ HasClient
    /\ _sim_data' = DictSet(_sim_data, port_name, value)
    /\ written' = Without(written, port_name)
    /\ last' = Call("update_sim", port_name, value, "", <<>>,
                    Local(None), NoRpc, is_connected)
    /\ UNCHANGED <<namespace, callers, pc, grpc_client, ctor, fields>>

\* GrpcClient.get_sim_data (grpc_client.py:267-269)
get_sim_data ==
    /\ HasClient
    /\ last' = Call("get_sim_data", "", None, "", <<>>,
                    Local(GetSimData), NoRpc, is_connected)
    /\ UNCHANGED <<namespace, callers, pc, grpc_client, ctor, fields, _sim_data, written>>

Start ==
    \/ import_grpc_client
    \/ \E addr \in Addresses, channel_raises, stub_raises \in BOOLEAN :
          init_grpc_client(addr, channel_raises, stub_raises)

Next ==
    \/ Start
    \/ \E port_name \in Names : read_single(port_name)
    \/ \E port_names \in SeqsUpTo(Names, MaxNames) : read_multiple(port_names)
    \/ \E port_name \in Names, value \in Values, data_type \in DataTypes :
          write_single(port_name, value, data_type)
    \/ \E port_name \in Names, value \in Presets : update_sim(port_name, value)
    \/ get_sim_data

Spec == Init /\ [][Next]_vars

(***************************************************************************)
(* A caller of get_sim_data that keeps the mapping it was given and        *)
(* changes it: `snap = client.get_sim_data()`, `snap[k] = v`,              *)
(* `del snap[k]`.  A change of a dict reaches every holder of that object. *)
(***************************************************************************)
snapshot_bind ==
    /\ HasClient
    /\ last.op = "get_sim_data"
    /\ snapshot' = last.ret
    /\ last' = Call("snapshot_bind", "", None, "", <<>>, Local(None), NoRpc, is_connected)
    /\ UNCHANGED <<namespace, requests, pc, grpc_client, ctor, fields, _sim_data, written>>

\* the object d points at, changed to hold entries e
DictAssign(d, e) ==
    /\ IF d.ref = "self._sim_data"
       THEN _sim_data' = e /\ UNCHANGED snapshot
       ELSE snapshot' = [d EXCEPT !.data = e] /\ UNCHANGED _sim_data
    /\ UNCHANGED <<namespace, requests, pc, grpc_client, ctor, fields, written>>

snapshot_setitem(k, v) ==
    /\ HasClient
    /\ snapshot.ref # "None"
    /\ DictAssign(snapshot, DictSet(Entries(snapshot), k, v))
    /\ last' = Call("snapshot_setitem", k, v, "", <<>>, Local(None), NoRpc, is_connected)

snapshot_delitem(k) ==
    /\ HasClient
    /\ snapshot.ref # "None"
    /\ k \in DOMAIN Entries(snapshot)
    /\ DictAssign(snapshot, Without(Entries(snapshot), k))
    /\ last' = Call("snapshot_delitem", k, None, "", <<>>, Local(None), NoRpc, is_connected)

NextSnapshot ==
    \/ Start
    \/ get_sim_data
    \/ snapshot_bind
    \/ \E k \in Names, v \in Presets : snapshot_setitem(k, v)
    \/ \E k \in Names : snapshot_delitem(k)
    \/ \E port_name \in Names : read_single(port_name)
    \/ \E port_name \in Names : write_single(port_name, PyInt(42), "AUTO")
    \/ \E port_name \in Names, value \in Presets : update_sim(port_name, value)

SpecSnapshot == Init /\ [][NextSnapshot]_vars

(***************************************************************************)
(* The request handlers of main.py that call the client.  A handler's      *)
(* answer is [status, body].                                               *)
(***************************************************************************)
Http(status, body) == [status |-> status, body |-> body]

\* `if not port_name`: the field is missing or empty
Missing == ""

\* read_variable (main.py:909-918)
ReadVariable(port_name, resp) ==
    IF grpc_client = "None"
    THEN Local(Http(503, [error |-> "No gRPC client", success |-> FALSE]))
    ELSE IF port_name = Missing
    THEN Local(Http(400, [error |-> "Missing port_name", success |-> FALSE]))
    ELSE LET out == ReadSingle(port_name, resp)
         IN  Outcome(Http(200, out.ret), out.raised, out.sent, out.store)

\* write_variable (main.py:920-931)
WriteVariable(port_name, value, data_type, resp) ==
    IF grpc_client = "None"
    THEN Local(Http(503, [error |-> "No gRPC client", success |-> FALSE]))
    ELSE IF port_name = Missing
    THEN Local(Http(400, [error |-> "Missing port_name", success |-> FALSE]))
    ELSE LET out == WriteSingle(port_name, value, data_type, resp)
         IN  Outcome(Http(IF out.ret THEN 200 ELSE 500, [success |-> out.ret]),
                     out.raised, out.sent, out.store)

\* main.py:833-839
vars_to_read ==
    <<Root \o "System.Running", Root \o "System.Error",
      Root \o "System.PicksPerMinute", Root \o "System.TotalPicks",
      Root \o "System.MissedItems">>

\* port_name.split('.')[-1], on the names of the model
LastSegment(name) ==
    CASE name = "X.Y" -> "Y"
      [] name = Root \o "System.Running" -> "Running"
      [] name = Root \o "System.Error" -> "Error"
      [] name = Root \o "System.PicksPerMinute" -> "PicksPerMinute"
      [] name = Root \o "System.TotalPicks" -> "TotalPicks"
      [] name = Root \o "System.MissedItems" -> "MissedItems"

RECURSIVE ByLastSegment(_, _, _)
\* main.py:842-845: for r in results: data[key] = r.get('value')
ByLastSegment(data, results, i) ==
    IF i > Len(results) THEN data
    ELSE ByLastSegment(DictSet(data, LastSegment(results[i].port_name),
                               results[i].value),
                       results, i + 1)

\* live_system (main.py:827-847)
LiveSystem(resp) ==
    IF grpc_client = "None"
    THEN Local(Http(503, [success |-> FALSE, error |-> "No gRPC connection"]))
    ELSE LET out == ReadMultiple(vars_to_read, resp)
         IN  IF out.raised THEN out
             ELSE Outcome(Http(200, [system |-> ByLastSegment(<<>>, out.ret, 1),
                                     success |-> TRUE,
                                     simulated |-> ~is_connected]),
                          FALSE, out.sent, out.store)

Serving == pc = "serving"

\* the store and the history after a handler's call
Handled(out, port_name, value, wrote) ==
    /\ _sim_data' = IF grpc_client = "None" \/ port_name = Missing
                    THEN _sim_data ELSE out.store
    /\ written' = IF wrote /\ grpc_client # "None" /\ port_name # Missing
                     /\ ~is_connected /\ ~is_connected_raises
                  THEN DictSet(written, port_name, value) ELSE written
    /\ UNCHANGED <<namespace, pc, grpc_client, ctor, fields>>

read_variable(port_name) ==
    /\ Serving
    /\ \E resp \in ReadResponses(address) :
          LET out == ReadVariable(port_name, resp)
          IN  /\ last' = Call("read_variable", port_name, None, "", <<>>,
                              out, resp, is_connected)
              /\ Handled(out, port_name, None, FALSE)
    /\ UNCHANGED callers

write_variable(port_name, value, data_type) ==
    /\ Serving
    /\ \E resp \in WriteResponses(address) :
          LET out == WriteVariable(port_name, value, data_type, resp)
          IN  /\ last' = WriteCall("write_variable", port_name, value, data_type,
                                   out, resp, is_connected)
              /\ Handled(out, port_name, value, TRUE)
    /\ UNCHANGED callers

live_system ==
    /\ Serving
    /\ \E resp \in ReadResponses(address) :
          LET out == LiveSystem(resp)
          IN  /\ last' = Call("live_system", "", None, "", vars_to_read,
                              out, resp, is_connected)
              /\ Handled(out, "live", None, FALSE)
    /\ UNCHANGED callers

NextMain ==
    \/ Start
    \/ \E port_name \in Names \cup {Missing} : read_variable(port_name)
    \/ \E port_name \in Names \cup {Missing}, value \in Values, data_type \in DataTypes :
          write_variable(port_name, value, data_type)
    \/ live_system

SpecMain == Init /\ [][NextMain]_vars

(***************************************************************************)
(* Request threads.  The server runs each request in a thread of its own,  *)
(* so handlers interleave at every point where one of them can be          *)
(* preempted.  A thread's position is the line of main.py it is at; a call *)
(* of a client method lasts from the step that reaches the line of the     *)
(* call to the step in which the call returns.                             *)
(***************************************************************************)
At(t, line) == thread[t].at = line

Goto(t, line) == thread' = [thread EXCEPT ![t].at = line]

Return(t) == thread' = [thread EXCEPT ![t] = Idle]

\* `with project_lock:` entered (threading.Lock: not reentrant, blocks)
Acquire(t) == project_lock = "free" /\ project_lock' = t

\* the with block left
Release(t) == project_lock = t /\ project_lock' = "free"

\* the lines at which a thread is inside a call of a client method
ClientCalls == {"read_variable:917", "write_variable:930", "live_robots:868"}

InClient(t) == thread[t].at \in ClientCalls

\* read_variable, lines 911-916: the checks before the call
read_variable_enter(t, port_name) ==
    /\ Serving /\ At(t, "idle")
    /\ IF grpc_client = "None" \/ port_name = Missing
       THEN /\ last' = Call("read_variable", port_name, None, "", <<>>,
                            ReadVariable(port_name, NoRpc), NoRpc, is_connected)
            /\ UNCHANGED thread
       ELSE /\ thread' = [thread EXCEPT ![t] = [Idle EXCEPT !.at = "read_variable:917",
                                                          !.port_name = port_name]]
            /\ UNCHANGED last
    /\ UNCHANGED <<namespace, pc, grpc_client, ctor, fields, _sim_data, written,
                   snapshot, events, signals, disk, current_project, project_lock>>

\* read_variable, lines 917-918: the call returns and the handler answers
read_variable_return(t) ==
    /\ At(t, "read_variable:917")
    /\ \E resp \in ReadResponses(address) :
          LET out == ReadVariable(thread[t].port_name, resp)
          IN  /\ last' = Call("read_variable", thread[t].port_name, None, "", <<>>,
                              out, resp, is_connected)
              /\ Handled(out, thread[t].port_name, None, FALSE)
    /\ Return(t)
    /\ UNCHANGED <<snapshot, events, signals, disk, current_project, project_lock>>

\* write_variable, lines 922-929
write_variable_enter(t, port_name, value, data_type) ==
    /\ Serving /\ At(t, "idle")
    /\ IF grpc_client = "None" \/ port_name = Missing
       THEN /\ last' = Call("write_variable", port_name, value, data_type, <<>>,
                            WriteVariable(port_name, value, data_type, NoRpc),
                            NoRpc, is_connected)
            /\ UNCHANGED thread
       ELSE /\ thread' = [thread EXCEPT ![t] = [Idle EXCEPT !.at = "write_variable:930",
                                                          !.port_name = port_name,
                                                          !.value = value,
                                                          !.data_type = data_type]]
            /\ UNCHANGED last
    /\ UNCHANGED <<namespace, pc, grpc_client, ctor, fields, _sim_data, written,
                   snapshot, events, signals, disk, current_project, project_lock>>

\* write_variable, lines 930-931
write_variable_return(t) ==
    /\ At(t, "write_variable:930")
    /\ \E resp \in WriteResponses(address) :
          LET l == thread[t]
              out == WriteVariable(l.port_name, l.value, l.data_type, resp)
          IN  /\ last' = WriteCall("write_variable", l.port_name, l.value, l.data_type,
                                   out, resp, is_connected)
              /\ Handled(out, l.port_name, l.value, TRUE)
    /\ Return(t)
    /\ UNCHANGED <<snapshot, events, signals, disk, current_project, project_lock>>

\* live_robots, lines 851-855: no client, or the lock is taken
live_robots_enter(t) ==
    /\ Serving /\ At(t, "idle")
    /\ IF grpc_client = "None"
       THEN /\ last' = Call("live_robots", "", None, "", <<>>,
                            Local(Http(503, [success |-> FALSE,
                                             error |-> "No gRPC connection"])),
                            NoRpc, is_connected)
            /\ UNCHANGED <<thread, project_lock>>
       ELSE /\ Acquire(t)
            /\ Goto(t, "live_robots:856")
            /\ UNCHANGED last
    /\ UNCHANGED <<namespace, pc, grpc_client, ctor, fields, _sim_data, written,
                   snapshot, events, signals, disk, current_project>>

\* live_robots, lines 856-868: robot_count is read, the lock is given back,
\* the names are listed and read_multiple is called
live_robots_call(t) ==
    /\ At(t, "live_robots:856")
    /\ Release(t)
    /\ thread' = [thread EXCEPT ![t].at = "live_robots:868",
                                ![t].robot_count = current_project.robots]
    /\ UNCHANGED <<namespace, pc, grpc_client, ctor, fields, _sim_data, written,
                   last, snapshot, events, signals, disk, current_project>>

\* main.py:858-866
RobotVars(i) ==
    LET prefix == Root \o "Robot" \o Fmt02d(i)
    IN  <<prefix \o ".Running", prefix \o ".Error",
          prefix \o ".PicksPerMinute", prefix \o ".TotalPicks">>

RECURSIVE RobotsToRead(_)
RobotsToRead(robot_count) ==
    IF robot_count = 0 THEN <<>>
    ELSE RobotsToRead(robot_count - 1) \o RobotVars(robot_count)

\* live_robots, lines 868-879: read_multiple returns and the handler answers
\* with the values, grouped by robot
live_robots_return(t) ==
    /\ At(t, "live_robots:868")
    /\ \E resp \in ReadResponses(address) :
          LET names == RobotsToRead(thread[t].robot_count)
              out == ReadMultiple(names, resp)
          IN  /\ last' = Call("live_robots", "", None, "", names, out, resp, is_connected)
              /\ _sim_data' = out.store
    /\ Return(t)
    /\ UNCHANGED <<namespace, pc, grpc_client, ctor, fields, written,
                   snapshot, events, signals, disk, current_project, project_lock>>

\* update_robots, lines 509-511: the project's robots are replaced under the lock
update_robots_enter(t) ==
    /\ Serving /\ At(t, "idle")
    /\ Acquire(t)
    /\ Goto(t, "update_robots:511")
    /\ UNCHANGED <<namespace, pc, grpc_client, ctor, fields, _sim_data, written,
                   last, snapshot, events, signals, disk, current_project>>

update_robots_set(t, robots) ==
    /\ At(t, "update_robots:511")
    /\ current_project' = [current_project EXCEPT !.robots = robots]
    /\ Release(t)
    /\ thread' = [thread EXCEPT ![t].at = "save_project_to_disk:171",
                                ![t].data = robots]
    /\ UNCHANGED <<namespace, pc, grpc_client, ctor, fields, _sim_data, written,
                   last, snapshot, events, signals, disk>>

\* save_project_to_disk (main.py:169-178), called at line 512
save_project_to_disk_enter(t) ==
    /\ At(t, "save_project_to_disk:171")
    /\ Acquire(t)
    /\ Goto(t, "save_project_to_disk:172")
    /\ UNCHANGED <<namespace, pc, grpc_client, ctor, fields, _sim_data, written,
                   last, snapshot, events, signals, disk, current_project>>

\* save_project_to_disk whose caller hands it the list it posted
DumpedOwn(t) == IF t \in Threads THEN [robots |-> thread[t].data] ELSE current_project

\* main.py:173: json.dump(current_project, f, ...)
Dumped(t) == current_project

\* main.py:172-178: failure is "none", "open" (open raises: the file is as it
\* was) or "dump" (json.dump raises: the file is left cut short)
Save(t, failure) ==
    /\ project_file' =
          CASE failure = "none" ->
                  [written |-> TRUE, partial |-> FALSE, content |-> Dumped(t)]
            [] failure = "open" -> project_file
            [] OTHER -> [written |-> TRUE, partial |-> TRUE, content |-> [robots |-> 0]]
    /\ save_failed' = (save_failed \/ failure # "none")

SaveFailures == {"none", "open", "dump"}

\* the handler's answer does not depend on whether the save succeeded
save_project_to_disk_return(t, failure) ==
    /\ At(t, "save_project_to_disk:172")
    /\ Save(t, failure)
    /\ Release(t)
    /\ Return(t)
    /\ last' = Call("update_robots", "", None, "", <<>>,
                    Local(Http(200, [success |-> TRUE])), NoRpc, is_connected)
    /\ UNCHANGED <<namespace, pc, grpc_client, ctor, fields, _sim_data, written,
                   snapshot, events, signals, current_project>>

\* what the requests of the model carry
ThreadNames == {Root \o "Robot01.Running"}
RobotLists == {0, 1}

NextThreads ==
    \/ Start
    \/ \E t \in Threads :
          \/ \E port_name \in ThreadNames \cup {Missing} : read_variable_enter(t, port_name)
          \/ read_variable_return(t)
          \/ \E port_name \in ThreadNames : write_variable_enter(t, port_name, PyBool(TRUE), "AUTO")
          \/ write_variable_return(t)
          \/ live_robots_enter(t)
          \/ live_robots_call(t)
          \/ live_robots_return(t)
          \/ update_robots_enter(t)
          \/ \E robots \in RobotLists : update_robots_set(t, robots)
          \/ save_project_to_disk_enter(t)
          \/ save_project_to_disk_return(t, "none")

SpecThreads == Init /\ [][NextThreads]_vars

(***************************************************************************)
(* The handlers that change the project: each changes current_project      *)
(* under project_lock, leaves the with block and calls                     *)
(* save_project_to_disk, which takes the lock again to write the file.     *)
(***************************************************************************)
\* the body posted to update_project: without the key, or with a list
NoKey == -1
ProjectPosts == {NoKey, 0, 1}

\* update_project, lines 470-471
update_project_enter(t) ==
    /\ Serving /\ At(t, "idle")
    /\ Acquire(t)
    /\ Goto(t, "update_project:473")
    /\ UNCHANGED <<namespace, pc, grpc_client, ctor, fields, _sim_data, written,
                   last, snapshot, events, signals, disk, current_project>>

\* update_project, lines 473-476: `if key in data: current_project[key] = data[key]`
update_project_set(t, robots) ==
    /\ At(t, "update_project:473")
    /\ current_project' = IF robots = NoKey THEN current_project
                          ELSE [current_project EXCEPT !.robots = robots]
    /\ Release(t)
    /\ thread' = [thread EXCEPT ![t].at = "save_project_to_disk:171",
                                ![t].data = robots]
    /\ UNCHANGED <<namespace, pc, grpc_client, ctor, fields, _sim_data, written,
                   last, snapshot, events, signals, disk>>

(***************************************************************************)
(* graceful_shutdown (main.py:441-447), the handler of SIGINT and SIGTERM. *)
(* The interpreter runs a signal handler in the main thread, between two   *)
(* bytecodes of whatever that thread is running, a signal handler that has *)
(* not finished included: the frames nest, and only the innermost runs.    *)
(* The main thread serves no request itself.                               *)
(***************************************************************************)
Top == signals[Len(signals)]

SetTop(line) == signals' = [signals EXCEPT ![Len(signals)] = line]

\* a signal is delivered: line 442, then save_project_to_disk is called
graceful_shutdown_enter ==
    /\ Serving
    /\ Len(signals) < MaxSignals
    /\ signals' = Append(signals, "save_project_to_disk:171")
    /\ UNCHANGED <<namespace, pc, grpc_client, ctor, fields, _sim_data, written,
                   last, snapshot, events, disk, current_project, project_lock, thread>>

\* save_project_to_disk, line 171, in the signal handler
graceful_shutdown_lock ==
    /\ Serving
    /\ signals # <<>> /\ Top = "save_project_to_disk:171"
    /\ Acquire("main")
    /\ SetTop("save_project_to_disk:172")
    /\ UNCHANGED <<namespace, pc, grpc_client, ctor, fields, _sim_data, written,
                   last, snapshot, events, disk, current_project, thread>>

\* save_project_to_disk, lines 172-178, in the signal handler
graceful_shutdown_save(failure) ==
    /\ Serving
    /\ signals # <<>> /\ Top = "save_project_to_disk:172"
    /\ Save("main", failure)
    /\ Release("main")
    /\ SetTop("sys.exit:444")
    /\ UNCHANGED <<namespace, pc, grpc_client, ctor, fields, _sim_data, written,
                   last, snapshot, events, current_project, thread>>

\* line 444: sys.exit(0) ends the process
graceful_shutdown_exit ==
    /\ Serving
    /\ signals # <<>> /\ Top = "sys.exit:444"
    /\ pc' = "exited"
    /\ signals' = <<>>
    /\ last' = Call("graceful_shutdown", "", None, "", <<>>, Local(None), NoRpc,
                    is_connected)
    /\ UNCHANGED <<namespace, grpc_client, ctor, fields, _sim_data, written,
                   snapshot, events, disk, current_project, project_lock, thread>>

graceful_shutdown ==
    \/ graceful_shutdown_enter
    \/ graceful_shutdown_lock
    \/ \E failure \in SaveFailures : graceful_shutdown_save(failure)
    \/ graceful_shutdown_exit

NextProject ==
    \/ Start
    \/ graceful_shutdown
    \/ \E t \in Threads :
          \/ update_project_enter(t)
          \/ \E robots \in ProjectPosts : update_project_set(t, robots)
          \/ update_robots_enter(t)
          \/ \E robots \in RobotLists : update_robots_set(t, robots)
          \/ save_project_to_disk_enter(t)
          \/ \E failure \in SaveFailures : save_project_to_disk_return(t, failure)

SpecProject == Init /\ [][NextProject]_vars

(***************************************************************************)
(* The event log: the handlers that log an event, get_events and           *)
(* clear_events.  Each touches event_log inside `with event_log_lock:`.    *)
(***************************************************************************)
\* Python's s[start:] on a list
SliceFrom(s, start) ==
    LET n == Len(s)
        from == IF start < 0 THEN (IF n + start < 0 THEN 0 ELSE n + start)
                ELSE (IF start > n THEN n ELSE start)
    IN  SubSeq(s, from + 1, n)

\* main.py:816: list(event_log)[-limit:]
GetEvents(limit) == SliceFrom(event_log, 0 - limit)

\* a handler that logs one event and answers 200 with a fixed message
Logs(op, message, level, reply) ==
    /\ Serving
    /\ now < MaxEvents
    /\ event_log' = add_event(event_log, now + 1, message, level)
    /\ now' = now + 1
    /\ last' = Call(op, "", None, "", <<>>,
                    Local(Http(200, [success |-> TRUE, message |-> reply])),
                    NoRpc, is_connected)
    /\ UNCHANGED <<namespace, pc, grpc_client, ctor, fields, _sim_data, written,
                   snapshot, current_project, project_lock, thread, disk, signals>>

\* control_enable (main.py:774-778)
control_enable == Logs("control_enable", "System enabled", "INFO", "Enabled")

\* control_stop (main.py:786-790)
control_stop == Logs("control_stop", "System stopped", "WARNING", "System stopped")

\* get_events (main.py:812-817); limit is the request's `limit` argument,
\* 100 when it has none
get_events(limit) ==
    /\ Serving
    /\ last' = Call("get_events", "", PyInt(limit), "", <<>>,
                    Local(Http(200, [events |-> GetEvents(limit), success |-> TRUE])),
                    NoRpc, is_connected)
    /\ UNCHANGED <<namespace, callers, pc, grpc_client, ctor, fields, _sim_data, written>>

\* clear_events (main.py:819-823)
clear_events ==
    /\ Serving
    /\ event_log' = <<>>
    /\ last' = Call("clear_events", "", None, "", <<>>,
                    Local(Http(200, [success |-> TRUE])), NoRpc, is_connected)
    /\ UNCHANGED <<namespace, pc, grpc_client, ctor, fields, _sim_data, written,
                   snapshot, current_project, project_lock, thread, disk, signals, now>>

Limits == {0, 1, 2, 100}

NextEvents ==
    \/ Start
    \/ control_enable
    \/ control_stop
    \/ \E limit \in Limits : get_events(limit)
    \/ clear_events

SpecEvents == Init /\ [][NextEvents]_vars

(***************************************************************************)
(* Properties.                                                             *)
(***************************************************************************)

\* C1: constructing a GrpcClient never raises; when construction fails (no
\* stub was made) the client returned is Simulated and its store is the
\* default one.
C1_ConstructorNeverRaises ==
    /\ ctor # "raised"
    /\ (last.op = "init_grpc_client" /\ ctor = "returned" /\ stub = "None")
          => (~is_connected /\ ~is_connected_raises /\ _sim_data = _init_sim_data)

\* C2: once the constructor has returned, no call changes is_connected (nor
\* the _connected flag under it), in either direction.
C2_ModeFixed ==
    [][HasClient => /\ is_connected' = is_connected
                    /\ _connected' = _connected
                    /\ GRPC_AVAILABLE' = GRPC_AVAILABLE]_vars

\* a Live client whose last read ended in a transport exception
C2_LiveAfterTransportError ==
    /\ HasClient /\ is_connected
    /\ last.op = "read_single" /\ last.sent = 1 /\ last.resp.exc

\* the scenario of C3: a client built with an unreachable network address
\* whose channel was constructed without raising
C3_Scenario ==
    /\ HasClient
    /\ address \in Unreachable /\ ~startswith(address, UnixPrefix)
    /\ channel # "None"

C3_WriteReturns(b) ==
    (last.op = "write_single" /\ last.port_name = "X.Y" /\ last.value = PyInt(42))
        => last.ret = b

C3_ReadBack ==
    (/\ last.op = "read_single" /\ last.port_name = "X.Y"
     /\ "X.Y" \in DOMAIN written /\ written["X.Y"] = PyInt(42))
        => (/\ last.ret.value = PyInt(42)
            /\ last.ret.success = TRUE
            /\ "simulated" \in DOMAIN last.ret /\ last.ret.simulated = TRUE)

C4_NeverNoClient ==
    (Serving /\ last.op \in {"read_variable", "write_variable", "live_system"})
        => last.ret.status # 503

ReadFields == {"port_name", "value", "success", "simulated"}

C5_Shaped(r, live) ==
    /\ ReadFields \subseteq DOMAIN r
    /\ r.simulated = ~live

C6_RoundTrip ==
    (/\ last.op = "read_single" /\ ~last.live /\ ~last.raised
     /\ last.port_name \in DOMAIN written)
        => (last.ret.value = written[last.port_name] /\ last.ret.success = TRUE)

\* a float read back while the other name holds a written string
C6_ReadAfterOtherWrite ==
    /\ last.op = "read_single" /\ ~last.live /\ last.port_name = "X.Y"
    /\ DOMAIN written = Names
    /\ written["X.Y"].kind = "float" /\ written[TotalPicks].kind = "str"
    /\ last.ret.value.kind = "float"

\* C7: in Simulated mode read_single of a name that is no key of the store
\* returns success true, simulated true and value None, and the name is still
\* no key afterwards.
C7_MissingKey ==
    [][(/\ last'.op = "read_single" /\ ~last'.live /\ ~last'.raised
        /\ last'.port_name \notin DOMAIN _sim_data)
           => (/\ last'.ret.success = TRUE
               /\ last'.ret.simulated = TRUE
               /\ last'.ret.value = None
               /\ _sim_data' = _sim_data)]_vars

C7_ReadOfMissingKey ==
    /\ last.op = "read_single" /\ ~last.live /\ ~last.raised
    /\ HasClient /\ last.port_name \notin DOMAIN _sim_data

\* C8: a Live read_single never raises and has three outcomes: an answer with
\* an item gives success, simulated false and the decoded first item; an empty
\* answer gives failure with value None; an exception gives failure, value
\* None and the error text.
C8_LiveReadOutcomes ==
    (last.op = "read_single" /\ last.live) =>
        /\ ~last.raised
        /\ last.ret.port_name = last.port_name
        /\ (last.sent = 1 /\ ~last.resp.exc /\ last.resp.dataItems # <<>>) =>
              /\ last.ret.success = TRUE
              /\ last.ret.simulated = FALSE
              /\ last.ret.value = _extract_value(last.resp.dataItems[1])
        /\ (last.sent = 1 /\ ~last.resp.exc /\ last.resp.dataItems = <<>>) =>
              /\ last.ret.success = FALSE
              /\ last.ret.value = None
        /\ (last.sent = 0 \/ last.resp.exc) =>
              /\ last.ret.success = FALSE
              /\ last.ret.value = None
              /\ "error" \in DOMAIN last.ret
              /\ last.sent = 1 => last.ret.error = last.resp.text

C8_LiveReadOfDouble ==
    /\ last.op = "read_single" /\ last.live /\ last.sent = 1
    /\ ~last.resp.exc /\ last.resp.dataItems # <<>>
    /\ last.resp.dataItems[1].value.tag = "doubleValue"
    /\ last.ret.value = PyFloat(15000000)

\* the coercions of the model's inputs that raise: int(None) and int("abc")
C9_CoercionRaises(value, data_type) ==
    /\ data_type \in {"DINT", "dint"}
    /\ value \in {None, PyStr("abc")}

\* C9: a Live write_single never raises; it returns true exactly when the
\* coercion and the one Write request both complete; a failed coercion sends
\* no request.
C9_LiveWrite ==
    (last.op = "write_single" /\ last.live) =>
        /\ ~last.raised
        /\ last.sent <= 1
        /\ C9_CoercionRaises(last.value, last.data_type) <=> last.sent = 0
        /\ last.ret = TRUE <=> (last.sent = 1 /\ ~last.resp.exc)

C9_LiveWriteAbcDint ==
    /\ last.op = "write_single" /\ last.live
    /\ last.value = PyStr("abc") /\ last.data_type = "DINT"
    /\ last.ret = FALSE /\ last.sent = 0

\* C10: a Simulated write_single(name, value, declared_type) returns true,
\* stores exactly value under name and leaves every other entry as it was.
C10_SimWrite ==
    [][(last'.op = "write_single" /\ ~last'.live /\ ~last'.raised) =>
          /\ last'.ret = TRUE
          /\ last'.port_name \in DOMAIN _sim_data'
          /\ _sim_data'[last'.port_name] = last'.value
          /\ IF last'.port_name \in DOMAIN _sim_data
             THEN [_sim_data' EXCEPT ![last'.port_name] = _sim_data[last'.port_name]]
                     = _sim_data
             ELSE /\ DOMAIN _sim_data' = DOMAIN _sim_data \cup {last'.port_name}
                  /\ \A k \in DOMAIN _sim_data : _sim_data'[k] = _sim_data[k]]_vars

C10_SimWriteAbcDint ==
    /\ last.op = "write_single" /\ ~last.live
    /\ last.value = PyStr("abc") /\ last.data_type = "DINT"
    /\ last.ret = TRUE /\ _sim_data["X.Y"] = PyStr("abc")

C12_SimBatch ==
    (last.op = "read_multiple" /\ ~last.live /\ ~last.raised) =>
        /\ Len(last.ret) = Len(last.port_names)
        /\ \A i \in 1..Len(last.port_names) :
              LET r == last.ret[i]
                  name == last.port_names[i]
              IN  /\ r.port_name = name
                  /\ r.value = (IF name \in DOMAIN _sim_data
                                THEN _sim_data[name] ELSE None)
                  /\ r.success = TRUE
                  /\ r.simulated = TRUE

\* a Simulated batch that names twice a name the store does not hold
C12_SimBatchOfUnknownTwice ==
    /\ last.op = "read_multiple" /\ ~last.live /\ ~last.raised
    /\ last.port_names = <<"X.Y", "X.Y">>
    /\ "X.Y" \notin DOMAIN _sim_data
    /\ Len(last.ret) = 2

\* C13: a Live read_multiple(names) whose request ends in a transport
\* exception does not raise and returns one record per requested name, in
\* request order, each with success false, value None and the same error text.
C13_LiveBatchError ==
    (last.op = "read_multiple" /\ last.live /\ last.sent = 1 /\ last.resp.exc) =>
        /\ ~last.raised
        /\ Len(last.ret) = Len(last.port_names)
        /\ \A i \in 1..Len(last.port_names) :
              /\ last.ret[i].port_name = last.port_names[i]
              /\ last.ret[i].success = FALSE
              /\ last.ret[i].value = None
              /\ last.ret[i].error = last.resp.text

C13_LiveBatchOfTwoFailed ==
    /\ last.op = "read_multiple" /\ last.live /\ last.sent = 1 /\ last.resp.exc
    /\ last.port_names = <<TotalPicks, "X.Y">>
    /\ Len(last.ret) = 2

\* C14: a Live read_multiple(names) that is answered sends one request and
\* returns one record per item of the answer, in the answer's order, each
\* named by the item's own name, with success true and simulated false; the
\* requested names have no part in it.
C14_LiveBatchByResponse ==
    (last.op = "read_multiple" /\ last.live /\ ~last.resp.exc /\ ~last.raised) =>
        /\ last.sent = 1
        /\ Len(last.ret) = Len(last.resp.dataItems)
        /\ \A i \in 1..Len(last.resp.dataItems) :
              /\ last.ret[i].port_name = last.resp.dataItems[i].portName
              /\ last.ret[i].success = TRUE
              /\ last.ret[i].simulated = FALSE

\* two names asked for, one item answered, for the second of them
C14_RequestedNameOmitted ==
    /\ last.op = "read_multiple" /\ last.live /\ last.sent = 1 /\ ~last.resp.exc
    /\ last.port_names = <<"X.Y", TotalPicks>>
    /\ Len(last.resp.dataItems) = 1
    /\ last.resp.dataItems[1].portName = TotalPicks
    /\ Len(last.ret) = 1 /\ last.ret[1].port_name = TotalPicks

\* C15: encoding under the declared type AUTO, or under a declared type the
\* client does not recognise, looks at the boolean kind first: a bool goes out
\* as a boolean wire value, never as a signed-32 integer; an int that is no
\* bool goes out as signed-32, a float as double, anything else as a string.
C15_AutoDetect ==
    (/\ last.op = "write_single" /\ last.live /\ last.sent = 1
     /\ last.data_type \in {"AUTO", "TIME"}) =>
        CASE last.value.kind = "bool" ->
                 /\ last.wire = Typed("boolValue", last.value.n, "")
                 /\ last.wire.tag # "int32Value"
          [] last.value.kind = "int" -> last.wire = Typed("int32Value", last.value.n, "")
          [] last.value.kind = "float" -> last.wire = Typed("doubleValue", last.value.n, "")
          [] last.value.kind = "str" -> last.wire = Typed("stringValue", 0, last.value.s)
          [] OTHER -> last.wire = Typed("stringValue", 0, "None")

\* True written Live under an unrecognised declared type
C15_BoolUnderUnknownType ==
    /\ last.op = "write_single" /\ last.live /\ last.sent = 1
    /\ last.data_type = "TIME" /\ last.value = PyBool(TRUE)
    /\ last.wire.tag = "boolValue" /\ last.ret = TRUE

\* the keys of one unit: "<Root><unit><NN>.<field>" for a field of F
C16_UnitKeys(unit, i, F) ==
    {Root \o unit \o (IF i < 10 THEN "0" ELSE "") \o ToString(i) \o "." \o f : f \in F}

C16_SystemKeys ==
    {Root \o "System." \o f :
        f \in {"Running", "Connected", "Error", "ErrorCode", "PicksPerMinute",
               "TotalPicks", "MissedItems"}}

C16_RobotFields ==
    {"Enabled", "Running", "Error", "ErrorCode", "PicksPerMinute", "TotalPicks",
     "Efficiency", "X", "Y", "Z"}

C16_ConveyorFields ==
    {"Enabled", "Running", "Speed", "ActualSpeed", "ItemsDetected", "ItemsLeft"}

C16_RobotKeys == UNION {C16_UnitKeys("Robot", i, C16_RobotFields) : i \in 1..8}

C16_ConveyorKeys == UNION {C16_UnitKeys("Conveyor", i, C16_ConveyorFields) : i \in 1..16}

C16_EnabledKeys(unit, lo, hi) ==
    UNION {C16_UnitKeys(unit, i, {"Enabled"}) : i \in lo..hi}

\* C16: the store a constructed client starts with has exactly 7 system
\* variables, 8 x 10 robot variables and 16 x 6 conveyor variables, 183 keys in
\* all; Enabled is true for robots and conveyors 1 and 2 and false from 3 up,
\* and every other entry is zero or false.
C16_DefaultStore ==
    (last.op = "init_grpc_client" /\ ctor = "returned") =>
        /\ DOMAIN _sim_data = C16_SystemKeys \cup C16_RobotKeys \cup C16_ConveyorKeys
        /\ Cardinality(C16_SystemKeys) = 7
        /\ Cardinality(C16_RobotKeys) = 80
        /\ Cardinality(C16_ConveyorKeys) = 96
        /\ Cardinality(DOMAIN _sim_data) = 183
        /\ \A k \in C16_EnabledKeys("Robot", 1, 2) \cup C16_EnabledKeys("Conveyor", 1, 2) :
              _sim_data[k] = PyBool(TRUE)
        /\ \A k \in C16_EnabledKeys("Robot", 3, 8) \cup C16_EnabledKeys("Conveyor", 3, 16) :
              _sim_data[k] = PyBool(FALSE)
        /\ \A k \in DOMAIN _sim_data :
              k \notin C16_EnabledKeys("Robot", 1, 2) \cup C16_EnabledKeys("Conveyor", 1, 2)
                 => _sim_data[k] \in {PyBool(FALSE), PyInt(0), PyFloat(0)}

\* a client just constructed, with robot 2 enabled and robot 3 not
C16_FreshStore ==
    /\ last.op = "init_grpc_client" /\ ctor = "returned" /\ HasClient
    /\ _sim_data[Root \o "Robot02.Enabled"] = PyBool(TRUE)
    /\ _sim_data[Root \o "Robot03.Enabled"] = PyBool(FALSE)
    /\ _sim_data[Root \o "Conveyor16.ItemsLeft"] = PyInt(0)

\* C17: get_sim_data returns an independent copy of the store: inserting,
\* overwriting or deleting entries of the returned mapping leaves the store,
\* which is all a later read_single, read_multiple or get_sim_data looks at,
\* as it was, and a later write to the store leaves the returned mapping as it
\* was.
C17_IndependentCopy ==
    [][/\ last'.op \in {"snapshot_setitem", "snapshot_delitem"}
            => _sim_data' = _sim_data
       /\ (snapshot.ref # "None" /\ last'.op \in {"write_single", "update_sim"})
            => Entries(snapshot)' = Entries(snapshot)]_<<_sim_data, snapshot>>

\* a snapshot that lost an entry, and a Simulated write to the store after it
C17_WriteAfterSnapshotChanged ==
    /\ snapshot.ref # "None"
    /\ TotalPicks \notin DOMAIN Entries(snapshot)
    /\ "X.Y" \in DOMAIN Entries(snapshot) /\ Entries(snapshot)["X.Y"] = PyInt(7)
    /\ last.op = "write_single" /\ ~last.live /\ last.port_name = "X.Y"
    /\ _sim_data["X.Y"] = PyInt(42) /\ TotalPicks \in DOMAIN _sim_data

\* what the claim says an item decodes to; floats are not its subject
C18_Decoded(item, v) ==
    CASE item.value.tag \in {"int8Value", "int16Value", "int32Value", "int64Value",
                             "uint8Value", "uint16Value", "uint32Value", "uint64Value"} ->
             v = PyInt(item.value.n)
      [] item.value.tag = "boolValue" -> v = PyBool(item.value.n = 1)
      [] item.value.tag = "stringValue" -> v = PyStr(item.value.s)
      [] item.value.tag \in {"floatValue", "doubleValue"} -> v.kind = "float"
      [] OTHER -> v = None

\* C18: decoding an item never raises and never fails the read: an integer of
\* any signedness and width comes out as that integer, a boolean or a string
\* unchanged, and an item with no member set, an unknown member or a value
\* that cannot be read comes out as None in a record with success true.
C18_DecodeNeverFails ==
    /\ (/\ last.op = "read_single" /\ last.live /\ last.sent = 1
         /\ ~last.resp.exc /\ last.resp.dataItems # <<>>) =>
            /\ ~last.raised
            /\ last.ret.success = TRUE
            /\ C18_Decoded(last.resp.dataItems[1], last.ret.value)
    /\ (/\ last.op = "read_multiple" /\ last.live /\ last.sent = 1
         /\ ~last.resp.exc) =>
            /\ ~last.raised
            /\ \A i \in 1..Len(last.resp.dataItems) :
                  /\ i <= Len(last.ret)
                  /\ last.ret[i].success = TRUE
                  /\ C18_Decoded(last.resp.dataItems[i], last.ret[i].value)

\* a Live read of an item whose member this client does not know
C18_UnknownTagRead ==
    /\ last.op = "read_single" /\ last.live /\ last.sent = 1 /\ ~last.resp.exc
    /\ last.resp.dataItems # <<>>
    /\ last.resp.dataItems[1].value.tag = "futureValue"
    /\ last.ret.value = None /\ last.ret.success = TRUE

\* C19: a call of read_single, read_multiple or write_single sends at most
\* one request: none in Simulated mode, none in Live mode when the coercion of
\* the value to write fails, and one, not more, when the request ends in a
\* transport exception.
C19_NoRetry ==
    last.op \in {"read_single", "read_multiple", "write_single"} =>
        /\ last.sent <= 1
        /\ ~last.live => last.sent = 0
        /\ (/\ last.op = "write_single" /\ last.live
             /\ last.data_type \in {"DINT", "dint"}
             /\ last.value \in {None, PyStr("abc")}) => last.sent = 0
        /\ last.resp.exc => last.sent = 1

\* a Live read whose one request ended in a transport exception
C19_OneRequestFailed ==
    /\ last.op = "read_single" /\ last.live
    /\ last.resp.exc /\ last.sent = 1 /\ last.ret.success = FALSE

C21_StoreFrame ==
    [][\/ last'.op \in {"init_grpc_client", "update_sim"}
       \/ (last'.op = "write_single" /\ ~last'.live)]_<<_sim_data>>

\* a Live write that succeeded, the store still as constructed
C21_LiveWriteDone ==
    /\ last.op = "write_single" /\ last.live /\ last.sent = 1 /\ last.ret = TRUE
    /\ last.value = PyInt(42) /\ last.port_name = TotalPicks
    /\ _sim_data = _init_sim_data

\* no request thread is in a handler
C22_AllReturned == \A t \in Threads : thread[t].at = "idle"

\* C22: the file follows memory under concurrent updates: once every update
\* handler has returned and no save has failed, the project file holds what
\* current_project holds (and while no update was made, memory is the project
\* the server started with).
C22_DiskFollowsMemory ==
    (C22_AllReturned /\ ~save_failed) =>
        IF project_file.written
        THEN ~project_file.partial /\ project_file.content = current_project
        ELSE current_project = [robots |-> 2]

\* both threads have posted a list, the last of them an empty one, and all
\* have returned
C22_UpdatesReturned ==
    /\ C22_AllReturned /\ ~save_failed
    /\ last.op = "update_robots"
    /\ project_file.written /\ project_file.content = [robots |-> 0]

\* a thread, or the signal handler on the main thread, is at the line that
\* takes project_lock
C23_Waits(who) ==
    IF who = "main"
    THEN signals # <<>> /\ signals[Len(signals)] = "save_project_to_disk:171"
    ELSE thread[who].at = "save_project_to_disk:171"

\* C23: project_lock never deadlocks: nobody tries to take the lock while
\* holding it, neither a request handler nor graceful_shutdown, whatever the
\* signal interrupts.
C23_NeverWaitsOnOwnLock ==
    \A who \in Threads \cup {"main"} : ~(C23_Waits(who) /\ project_lock = who)

\* C24: the event log is a bounded ring read from its tail: it holds at
\* most 500 events, oldest first, and get_events with limit L >= 0 returns
\* the min(L, n) most recent of the n stored events, oldest first; nothing
\* when L = 0.
C24_RingReadFromTail ==
    /\ Len(event_log) <= 500
    /\ \A i \in 1..Len(event_log) - 1 :
          event_log[i].timestamp < event_log[i + 1].timestamp
    /\ (last.op = "get_events" /\ last.value.n >= 0) =>
          LET n == Len(event_log)
              k == IF last.value.n < n THEN last.value.n ELSE n
              got == last.ret.body.events
          IN  /\ Len(got) = k
              /\ \A i \in 1..k : got[i] = event_log[n - k + i]

====
